---- MODULE Spec2Model ----
(***************************************************************************)
(* Weather clock: periodic jobs (app.c), the seniverse field extractor     *)
(* (weather.c) and the weather icon selection (main_page.c).               *)
(*                                                                         *)
(* C strings are sequences of one-character strings.  A pointer into a    *)
(* string is the index of its first character; index 0 is NULL.           *)
(* Temperatures (float in the source) are integers counting tenths of a   *)
(* degree.                                                                 *)
(***************************************************************************)
EXTENDS Integers, Sequences, FiniteSets, TLC

VARIABLES
    pc,                \* "boot" before app_init, "started" after it
    timer,             \* the five FreeRTOS timers: period (ms), auto-reload, active, callback
    queue,             \* the work queue: jobs handed to workqueue_run, in order
    worker,            \* job the worker context is executing, or "idle"
    rtc,               \* time held by the RTC chip
    last_info,         \* wifi_update: static last_info
    last_date,         \* time_update: static last_date
    last_temperature,  \* inner_update: static last_temperature
    last_humidity,     \* inner_update: static last_humidity
    last_weather,      \* outdoor_update: static last_weather
    ran,               \* job body the last step ran, or "none"
    fetched,           \* what that run fetched
    prev,              \* that job's static value when the run began
    calls,             \* display calls the last step made, in order
    stored,            \* display calls that run had made when it wrote its static, -1 if it wrote none
    ssid_shown,        \* text last handed to main_page_redraw_wifi_ssid, NoText before the first call
    response,          \* parse_seniverse_response: argument response
    info,              \* parse_seniverse_response: record behind argument info
    entry,             \* value of that record when the call began
    ret,               \* parse_seniverse_response: "true" or "false" as returned, "none" before the call
    shape,             \* how the text in response was laid out
    code,              \* main_page_redraw_outdoor_weather_icon: argument code
    drawn              \* image handed to ui_draw_image, or "none"

vars == <<pc, timer, queue, worker, rtc, last_info, last_date, last_temperature,
          last_humidity, last_weather, ran, fetched, prev, calls, stored,
          ssid_shown, response, info, entry, ret, shape, code, drawn>>

schedVars == <<pc, timer, queue, worker>>
jobVars == <<rtc, last_info, last_date, last_temperature, last_humidity,
             last_weather, ran, fetched, prev, calls, stored, ssid_shown>>
parseVars == <<response, info, entry, ret, shape>>
iconVars == <<code, drawn>>

(***************************************************************************)
(* Characters and strings                                                  *)
(***************************************************************************)
Q == "\""

Digits == <<"0", "1", "2", "3", "4", "5", "6", "7", "8", "9">>

IsDigit(c) == \E d \in 1..10 : Digits[d] = c

DigitVal(c) == (CHOOSE d \in 1..10 : Digits[d] = c) - 1

IsSpace(c) == c \in {" ", "\t", "\n", "\r"}

(***************************************************************************)
(* weather.c                                                               *)
(***************************************************************************)
KeyResults == <<Q, "r", "e", "s", "u", "l", "t", "s", Q, ":">>
KeyLocation == <<Q, "l", "o", "c", "a", "t", "i", "o", "n", Q, ":">>
KeyName == <<Q, "n", "a", "m", "e", Q, ":">>
KeyPath == <<Q, "p", "a", "t", "h", Q, ":">>
KeyNow == <<Q, "n", "o", "w", Q, ":">>
KeyText == <<Q, "t", "e", "x", "t", Q, ":">>
KeyCode == <<Q, "c", "o", "d", "e", Q, ":">>
KeyTemperature == <<Q, "t", "e", "m", "p", "e", "r", "a", "t", "u", "r", "e", Q, ":">>

CITY_WIDTH == 31
LOACTION_WIDTH == 128
WEATHER_WIDTH == 15
TEMPERATURE_WIDTH == 15

\* strstr(h + from - 1, n): index in h of the first occurrence of n at or after
\* index from; 0 (NULL) when there is none, or when from is NULL
strstr(h, from, n) ==
    LET hits == {i \in from..(Len(h) - Len(n) + 1) : \A k \in 1..Len(n) : h[i + k - 1] = n[k]}
    IN IF from = 0 \/ hits = {} THEN 0
       ELSE CHOOSE i \in hits : \A j \in hits : i <= j

\* white space directive of a scanf format: first index at or after i that holds no white space
SkipSpace(s, i) ==
    CHOOSE j \in i..(Len(s) + 1) :
        /\ \A k \in i..(j - 1) : IsSpace(s[k])
        /\ (j = Len(s) + 1 \/ ~IsSpace(s[j]))

\* %[^"] with the field width left out: the run goes on to the closing quote
ScanSet_unbounded(s, i, width) ==
    LET n == CHOOSE m \in 0..(Len(s) + 1 - i) :
                 /\ \A k \in i..(i + m - 1) : s[k] # Q
                 /\ (i + m > Len(s) \/ s[i + m] = Q)
    IN SubSeq(s, i, i + n - 1)

\* %N[^"]: the longest run of at most width characters other than the quote, from index i
ScanSet(s, i, width) ==
    LET n == CHOOSE m \in 0..width :
                 /\ i + m - 1 <= Len(s)
                 /\ \A k \in i..(i + m - 1) : s[k] # Q
                 /\ (m = width \/ i + m > Len(s) \/ s[i + m] = Q)
    IN SubSeq(s, i, i + n - 1)

\* the run of decimal digits that starts at index i
DigitRun(s, i) ==
    LET n == CHOOSE m \in 0..(Len(s) + 1 - i) :
                 /\ \A k \in i..(i + m - 1) : IsDigit(s[k])
                 /\ (i + m > Len(s) \/ ~IsDigit(s[i + m]))
    IN SubSeq(s, i, i + n - 1)

RECURSIVE Decimal(_)
Decimal(ds) ==
    IF ds = <<>> THEN 0
    ELSE 10 * Decimal(SubSeq(ds, 1, Len(ds) - 1)) + DigitVal(ds[Len(ds)])

\* index of the first character after the opening quote of the value that
\* follows the key at index at (format: key, white space, quote); 0 on mismatch
ValueStart(s, at, key) ==
    LET i == SkipSpace(s, at + Len(key))
    IN IF i <= Len(s) /\ s[i] = Q THEN i + 1 ELSE 0

\* sscanf(p, "\"key\": \"%N[^\"]\"", out): conversions assigned and the text
sscanf_str(s, at, key, width) ==
    LET v == ValueStart(s, at, key)
        run == IF v = 0 THEN <<>> ELSE ScanSet(s, v, width)
    IN [n |-> IF run = <<>> THEN 0 ELSE 1, str |-> run]

\* sscanf(p, "\"code\": \"%d\"", out): conversions assigned and the integer
sscanf_int(s, at, key) ==
    LET v == ValueStart(s, at, key)
        i == IF v = 0 THEN 0 ELSE SkipSpace(s, v)
        signed == i # 0 /\ i <= Len(s) /\ s[i] \in {"-", "+"}
        d == IF i = 0 THEN <<>> ELSE DigitRun(s, IF signed THEN i + 1 ELSE i)
        mag == Decimal(d)
    IN [n |-> IF d = <<>> THEN 0 ELSE 1,
        val |-> IF signed /\ s[i] = "-" THEN 0 - mag ELSE mag]

\* atof read as atoi: the fraction is dropped
atof_whole(str) ==
    LET i == SkipSpace(str, 1)
        signed == i <= Len(str) /\ str[i] \in {"-", "+"}
        mag == 10 * Decimal(DigitRun(str, IF signed THEN i + 1 ELSE i))
    IN IF signed /\ str[i] = "-" THEN 0 - mag ELSE mag

\* atof over sign, digits and a decimal fraction, in tenths of a unit;
\* a text with no leading numeral converts to 0
atof(str) ==
    LET i == SkipSpace(str, 1)
        signed == i <= Len(str) /\ str[i] \in {"-", "+"}
        j == IF signed THEN i + 1 ELSE i
        whole == DigitRun(str, j)
        k == j + Len(whole)
        frac == IF k <= Len(str) /\ str[k] = "." THEN DigitRun(str, k + 1) ELSE <<>>
        tenths == 10 * Decimal(whole) + (IF frac = <<>> THEN 0 ELSE DigitVal(frac[1]))
        mag == IF whole = <<>> /\ frac = <<>> THEN 0 ELSE tenths
    IN IF signed /\ str[i] = "-" THEN 0 - mag ELSE mag

ZeroWeather == [city |-> <<>>, loaction |-> <<>>, weather |-> <<>>,
                weather_code |-> 0, temperature |-> 0]

\* city emptied when the name key is not found
parse_city_cleared(s, loc, in) ==
    LET at == strstr(s, loc, KeyName)
        r == sscanf_str(s, at, KeyName, CITY_WIDTH)
    IN IF at # 0 /\ r.n = 1 THEN r.str ELSE <<>>

\* city as left by lines 55-59
parse_city(s, loc, in) ==
    LET at == strstr(s, loc, KeyName)
        r == sscanf_str(s, at, KeyName, CITY_WIDTH)
    IN IF at # 0 /\ r.n = 1 THEN r.str ELSE in.city

\* loaction as left by lines 67-71
parse_loaction(s, loc, in) ==
    LET at == strstr(s, loc, KeyPath)
        r == sscanf_str(s, at, KeyPath, LOACTION_WIDTH)
    IN IF at # 0 /\ r.n = 1 THEN r.str ELSE in.loaction

\* weather as left by lines 86-90
parse_weather(s, now, in) ==
    LET at == strstr(s, now, KeyText)
        r == sscanf_str(s, at, KeyText, WEATHER_WIDTH)
    IN IF at # 0 /\ r.n = 1 THEN r.str ELSE in.weather

\* weather_code cleared when the key is missing
parse_weather_code_cleared(s, now, in) ==
    LET at == strstr(s, now, KeyCode)
        r == sscanf_int(s, at, KeyCode)
    IN IF at # 0 /\ r.n = 1 THEN r.val ELSE 0

\* weather_code as left by lines 99-103
parse_weather_code(s, now, in) ==
    LET at == strstr(s, now, KeyCode)
        r == sscanf_int(s, at, KeyCode)
    IN IF at # 0 /\ r.n = 1 THEN r.val ELSE in.weather_code

\* what the sscanf at line 115 copies into temperature_str
temperature_str(s, now) ==
    sscanf_str(s, strstr(s, now, KeyTemperature), KeyTemperature, TEMPERATURE_WIDTH).str

\* temperature as left by lines 110-118
parse_temperature(s, now, in) ==
    LET at == strstr(s, now, KeyTemperature)
        r == sscanf_str(s, at, KeyTemperature, TEMPERATURE_WIDTH)
    IN IF at # 0 /\ r.n = 1 THEN atof(temperature_str(s, now)) ELSE in.temperature

\* the first structural test without its NULL check: scanning goes on from the start
results_anchor_unchecked(s) ==
    IF strstr(s, 1, KeyResults) = 0 THEN 1 ELSE strstr(s, 1, KeyResults)

\* the result of the first structural test, lines 39-41
results_anchor(s) == strstr(s, 1, KeyResults)

\* the third structural test without its NULL check: scanning goes on from the results anchor
now_anchor_unchecked(s, res) ==
    IF strstr(s, res, KeyNow) = 0 THEN res ELSE strstr(s, res, KeyNow)

\* the result of the third structural test, lines 76-78
now_anchor(s, res) == strstr(s, res, KeyNow)

\* the record behind info zeroed on entry, before anything is looked for
parse_seniverse_response_zeroed(s, in) ==
    LET res == results_anchor(s)
        loc == strstr(s, res, KeyLocation)
        now == now_anchor(s, res)
        located == [ZeroWeather EXCEPT !.city = parse_city(s, loc, ZeroWeather),
                                       !.loaction = parse_loaction(s, loc, ZeroWeather)]
    IN IF res = 0 THEN [ok |-> FALSE, info |-> ZeroWeather]
       ELSE IF loc = 0 THEN [ok |-> FALSE, info |-> ZeroWeather]
       ELSE IF now = 0 THEN [ok |-> FALSE, info |-> located]
       ELSE [ok |-> TRUE,
             info |-> [located EXCEPT !.weather = parse_weather(s, now, ZeroWeather),
                                      !.weather_code = parse_weather_code(s, now, ZeroWeather),
                                      !.temperature = parse_temperature(s, now, ZeroWeather)]]

\* parse_seniverse_response(response, info): the returned value and the record left behind info
parse_seniverse_response(s, in) ==
    LET res == results_anchor(s)
        loc == strstr(s, res, KeyLocation)
        now == now_anchor(s, res)
        located == [in EXCEPT !.city = parse_city(s, loc, in),
                              !.loaction = parse_loaction(s, loc, in)]
    IN IF res = 0 THEN [ok |-> FALSE, info |-> in]
       ELSE IF loc = 0 THEN [ok |-> FALSE, info |-> in]
       ELSE IF now = 0 THEN [ok |-> FALSE, info |-> located]
       ELSE [ok |-> TRUE,
             info |-> [located EXCEPT !.weather = parse_weather(s, now, in),
                                      !.weather_code = parse_weather_code(s, now, in),
                                      !.temperature = parse_temperature(s, now, in)]]

(***************************************************************************)
(* Responses handed to the extractor.  A shape says which anchors and keys *)
(* the text holds, the value quoted after each key, and the layout.        *)
(***************************************************************************)
Singapore == <<"S", "i", "n", "g", "a", "p", "o", "r", "e">>
SingaporePath == Singapore \o <<",">> \o Singapore \o <<",">> \o Singapore
Sunny == <<"S", "u", "n", "n", "y">>
\* a key that is absent; a key followed by a quoted text; a key followed by a
\* quoted numeral, with the number it denotes (temperatures in tenths)
Absent == [present |-> FALSE, text |-> <<>>, numeral |-> FALSE, val |-> 0]
Text(t) == [present |-> TRUE, text |-> t, numeral |-> FALSE, val |-> 0]
Numeral(t, v) == [present |-> TRUE, text |-> t, numeral |-> TRUE, val |-> v]

NameValues == {Absent, Text(Singapore), Text(<<>>)}
PathValues == {Absent, Text(SingaporePath)}
TextValues == {Absent, Text(Sunny)}
CodeValues == {Absent, Numeral(<<"0">>, 0), Numeral(<<"1", "0">>, 10), Text(<<"x">>)}
TemperatureValues == {Absent, Numeral(<<"2", "8">>, 280), Numeral(<<"-", "3", ".", "5">>, -35),
                      Text(<<"a", "b", "c">>)}
Layouts == {"compact", "spaced", "nowfirst"}

Shapes == [results : BOOLEAN, location : BOOLEAN, now : BOOLEAN, layout : Layouts,
           name : NameValues, path : PathValues, text : TextValues,
           code : CodeValues, temperature : TemperatureValues]

Field(key, f, layout) ==
    IF ~f.present THEN <<>>
    ELSE key \o (IF layout = "spaced" THEN <<" ">> ELSE <<>>) \o <<Q>> \o f.text \o <<Q, ",">>

Render(p) ==
    LET loc == (IF p.location THEN KeyLocation ELSE <<Q, "p", "l", "a", "c", "e", Q, ":">>)
               \o <<"{">> \o Field(KeyName, p.name, p.layout)
               \o Field(KeyPath, p.path, p.layout) \o <<"}", ",">>
        now == (IF p.now THEN KeyNow ELSE <<Q, "d", "a", "i", "l", "y", Q, ":">>)
               \o <<"{">> \o Field(KeyText, p.text, p.layout)
               \o Field(KeyCode, p.code, p.layout)
               \o Field(KeyTemperature, p.temperature, p.layout) \o <<"}", ",">>
    IN <<"{">> \o (IF p.results THEN KeyResults ELSE <<Q, "e", "r", "r", "o", "r", Q, ":">>)
       \o <<"[", "{">> \o (IF p.layout = "nowfirst" THEN now \o loc ELSE loc \o now)
       \o <<"}", "]", "}">>

OldWeather == [city |-> <<"O", "s", "l", "o">>, loaction |-> <<"O", "s", "l", "o", ",", "N", "O">>,
               weather |-> <<"S", "n", "o", "w">>, weather_code |-> 14, temperature |-> -50]

NoShape == [results |-> FALSE, location |-> FALSE, now |-> FALSE, layout |-> "compact",
            name |-> Absent, path |-> Absent, text |-> Absent, code |-> Absent,
            temperature |-> Absent]

\* the extractor has not been called
ParseIdle ==
    /\ response = <<>>
    /\ info = ZeroWeather
    /\ entry = ZeroWeather
    /\ ret = "none"
    /\ shape = NoShape

\* the icon routine has not been called
IconIdle ==
    /\ code = 0
    /\ drawn = "none"

\* one call parse_seniverse_response(response, &info)
Parse ==
    /\ ret = "none"
    /\ response # <<>>
    /\ LET r == parse_seniverse_response(response, info)
       IN /\ info' = r.info
          /\ ret' = IF r.ok THEN "true" ELSE "false"
    /\ UNCHANGED <<response, entry, shape, schedVars, jobVars, iconVars>>

(***************************************************************************)
(* main_page.c                                                             *)
(***************************************************************************)
\* the switch with the sunny cases widened to 0-3
weather_icon_wide_sunny(c) ==
    IF c \in {0, 1, 2, 3} THEN "img_weather_sunny"
    ELSE IF c \in {4, 5, 6, 7, 8} THEN "img_weather_cloudy"
    ELSE IF c \in {9, 10, 11, 12, 13} THEN "img_weather_rainy"
    ELSE IF c \in {14, 15, 16, 17} THEN "img_weather_snowy"
    ELSE "img_weather_unknown"

\* the switch of main_page_redraw_outdoor_weather_icon
weather_icon(c) ==
    IF c \in {0, 1} THEN "img_weather_sunny"
    ELSE IF c \in {4, 5, 6, 7, 8} THEN "img_weather_cloudy"
    ELSE IF c \in {9, 10, 11, 12, 13} THEN "img_weather_rainy"
    ELSE IF c \in {14, 15, 16, 17} THEN "img_weather_snowy"
    ELSE "img_weather_unknown"

\* one call main_page_redraw_outdoor_weather_icon(code)
main_page_redraw_outdoor_weather_icon ==
    /\ drawn = "none"
    /\ drawn' = weather_icon(code)
    /\ UNCHANGED <<code, schedVars, jobVars, parseVars>>

(***************************************************************************)
(* app.c: durations in milliseconds                                        *)
(***************************************************************************)
SECONDS(x) == x * 1000
MINUTES(x) == SECONDS(x * 60)
HOURS(x) == MINUTES(x * 60)

TIME_SYNC_INTERVAL == HOURS(1)
WIFI_UPDATE_INTERVAL == SECONDS(5)
TIME_UPDATE_INTERVAL == SECONDS(1)
INNER_UPDATE_INTERVAL == SECONDS(3)
OUTDOOR_UPDATE_INTERVAL == MINUTES(1)
TIME_SYNC_FIRST_DELAY == 200
SYNC_MIN_YEAR == 2000
\* the display threshold taken to be the threshold of time_sync
SHOW_MIN_YEAR_of_sync == SYNC_MIN_YEAR

SHOW_MIN_YEAR == 2020

Jobs == {"time_sync", "wifi_update", "time_update", "inner_update", "outdoor_update"}
WorkJobs == Jobs \ {"time_update"}

(***************************************************************************)
(* Values of the collaborators                                             *)
(***************************************************************************)
Date(y, s) == [year |-> y, month |-> 1, day |-> 2, hour |-> 3, minute |-> 4,
               second |-> s, weekday |-> 5]
ZeroDate == [year |-> 0, month |-> 0, day |-> 0, hour |-> 0, minute |-> 0,
             second |-> 0, weekday |-> 0]
PowerOnDate == Date(2000, 0)

WifiInfo(s, b, ch, r, c) == [ssid |-> s, bssid |-> b, channel |-> ch, rssi |-> r, connected |-> c]
ZeroInfo == WifiInfo("", "", 0, 0, FALSE)
WifiLost == "wifi lost"

\* a display call and its argument; what a run fetched and whether it may be used
Call(fn, arg) == [fn |-> fn, arg |-> arg]
Got(ok, val) == [ok |-> ok, val |-> val]
Void == [void |-> TRUE]
Nothing == Got(FALSE, Void)
TextArg(t) == [text |-> t]
NoText == [none |-> TRUE]
FloatArg(x) == [value |-> x]
IntArg(n) == [code |-> n]
Reading(t, h) == [temperature |-> t, humidity |-> h]

(***************************************************************************)
(* app.c: job bodies.  Each takes what its collaborator returns.           *)
(***************************************************************************)

\* what a job body does once it has found a change, in source order: the
\* write of its static (Store) and its display calls
Store == Call("store", Void)
IsDisplay(c) == c.fn # "store"
IsSsidCall(c) == c.fn = "main_page_redraw_wifi_ssid"
Displayed(e) == SelectSeq(e, IsDisplay)
StoredAt(e) ==
    IF \E i \in 1..Len(e) : ~IsDisplay(e[i])
    THEN Len(Displayed(SubSeq(e, 1, CHOOSE i \in 1..Len(e) : ~IsDisplay(e[i]))))
    ELSE 0 - 1
\* the text on the Wi-Fi line of the page once the calls of e are made
SsidAfter(e, shown) ==
    LET ssid == SelectSeq(e, IsSsidCall)
    IN IF ssid = <<>> THEN shown ELSE ssid[Len(ssid)].arg
effects(e) ==
    /\ calls' = Displayed(e)
    /\ stored' = StoredAt(e)
    /\ ssid_shown' = SsidAfter(e, ssid_shown)

\* restart_sync_delay when the invalid-year branch forgets to shorten it
restart_sync_delay_year_kept(r) ==
    IF ~r.ok THEN SECONDS(1) ELSE TIME_SYNC_INTERVAL

\* restart_sync_delay at label err; r is what esp_at_sntp_get_time gave
restart_sync_delay(r) ==
    IF ~r.ok THEN SECONDS(1)
    ELSE IF r.date.year < SYNC_MIN_YEAR THEN SECONDS(1)
    ELSE TIME_SYNC_INTERVAL

\* the failure branches returning instead of jumping to err
time_sync_rearm_on_success(t, r) ==
    IF r.ok /\ r.date.year >= SYNC_MIN_YEAR
    THEN [t EXCEPT !["time_sync"].period = restart_sync_delay(r), !["time_sync"].active = TRUE]
    ELSE t

\* xTimerChangePeriod(time_sync_timer, ...) at label err
time_sync_rearm(t, r) ==
    [t EXCEPT !["time_sync"].period = restart_sync_delay(r),
              !["time_sync"].active = TRUE]

time_sync(r) ==
    /\ rtc' = IF r.ok /\ r.date.year >= SYNC_MIN_YEAR THEN r.date ELSE rtc
    /\ timer' = time_sync_rearm(timer, r)
    /\ ran' = "time_sync"
    /\ fetched' = Got(r.ok /\ r.date.year >= SYNC_MIN_YEAR, r.date)
    /\ prev' = rtc
    /\ calls' = <<>>
    /\ stored' = 0 - 1
    /\ UNCHANGED ssid_shown
    /\ UNCHANGED <<last_info, last_date, last_temperature, last_humidity, last_weather>>

\* wifi_update with the memcmp test only
wifi_unchanged_memcmp(new, last) == new = last

\* the two early returns of wifi_update, lines 124-133
wifi_unchanged(new, last) ==
    new = last \/ last.connected = new.connected

\* the disconnect branch showing the network that was lost
wifi_ssid_text_stale(new, last) ==
    IF new.connected THEN new.ssid ELSE last.ssid

\* the text handed to main_page_redraw_wifi_ssid, lines 136-153
wifi_ssid_text(new, last) ==
    IF new.connected THEN new.ssid ELSE WifiLost

\* lines 136-156: the display call, then memcpy(&last_info, &info, ...)
wifi_effects(new, last) ==
    <<Call("main_page_redraw_wifi_ssid", TextArg(wifi_ssid_text(new, last))), Store>>

\* wifi_update without the memcpy into last_info
wifi_update_unsaved(r) ==
    /\ ran' = "wifi_update"
    /\ fetched' = Got(r.ok, r.info)
    /\ prev' = last_info
    /\ IF ~r.ok \/ wifi_unchanged(r.info, last_info)
       THEN effects(<<>>)
       ELSE effects(<<Call("main_page_redraw_wifi_ssid",
                           TextArg(wifi_ssid_text(r.info, last_info)))>>)
    /\ UNCHANGED <<rtc, timer, last_info, last_date, last_temperature, last_humidity,
                   last_weather>>

wifi_update(r) ==
    /\ ran' = "wifi_update"
    /\ fetched' = Got(r.ok, r.info)
    /\ prev' = last_info
    /\ IF ~r.ok \/ wifi_unchanged(r.info, last_info)
       THEN /\ effects(<<>>)
            /\ UNCHANGED last_info
       ELSE /\ effects(wifi_effects(r.info, last_info))
            /\ last_info' = r.info
    /\ UNCHANGED <<rtc, timer, last_date, last_temperature, last_humidity, last_weather>>

\* memcmp(&date, &last_date, sizeof(rtc_date_time_t)) == 0
date_unchanged(date, last) == date = last

\* the static saved once both redraws are done
time_update_effects_late(date) ==
    <<Call("main_page_redraw_time", date), Call("main_page_redraw_date", date), Store>>

\* lines 184-188: memcpy(&last_date, &date, ...), then the two redraws
time_update_effects(date) ==
    <<Store, Call("main_page_redraw_time", date), Call("main_page_redraw_date", date)>>

time_update ==
    /\ ran' = "time_update"
    /\ fetched' = Got(rtc.year >= SHOW_MIN_YEAR, rtc)
    /\ prev' = last_date
    /\ IF rtc.year < SHOW_MIN_YEAR \/ date_unchanged(rtc, last_date)
       THEN /\ effects(<<>>)
            /\ UNCHANGED last_date
       ELSE /\ last_date' = rtc
            /\ effects(time_update_effects(rtc))
    /\ UNCHANGED <<rtc, timer, last_info, last_temperature, last_humidity, last_weather>>

\* the comparison written with || in place of &&
inner_unchanged_either(t, h, lt, lh) == t = lt \/ h = lh

\* temperature == last_temperature && humidity == last_humidity
inner_unchanged(t, h, lt, lh) == t = lt /\ h = lh

\* the measurement read without waiting for it
inner_measured_unwaited(r) == r.start /\ r.read

\* lines 201-221: aht20_start_measurement, aht20_wait_for_measurement and
\* aht20_read_measurement all returned true
inner_measured(r) == r.start /\ r.wait /\ r.read

\* lines 230-238: the two statics assigned, then the two redraws
inner_effects(t, h) ==
    <<Store, Call("main_page_redraw_inner_temperature", FloatArg(t)),
             Call("main_page_redraw_inner_humidity", FloatArg(h))>>

inner_update(r) ==
    LET ok == r.start /\ r.wait /\ r.read
    IN /\ ran' = "inner_update"
       /\ fetched' = Got(ok, Reading(r.temperature, r.humidity))
       /\ prev' = Reading(last_temperature, last_humidity)
       /\ IF ~inner_measured(r)
             \/ inner_unchanged(r.temperature, r.humidity, last_temperature, last_humidity)
          THEN /\ effects(<<>>)
               /\ UNCHANGED <<last_temperature, last_humidity>>
          ELSE /\ last_temperature' = r.temperature
               /\ last_humidity' = r.humidity
               /\ effects(inner_effects(r.temperature, r.humidity))
       /\ UNCHANGED <<rtc, timer, last_info, last_date, last_weather>>

\* memcmp(&last_weather, &weather, sizeof(weather_info_t)) == 0
weather_unchanged(last, new) == last = new

\* lines 257-269: the record parsed from the response, and whether both steps succeeded
outdoor_fetch(r) ==
    IF r.null THEN [ok |-> FALSE, info |-> ZeroWeather]
    ELSE parse_seniverse_response(r.text, ZeroWeather)

\* lines 278-285: memcpy(&last_weather, &weather, ...), then the two redraws
outdoor_effects(w) ==
    <<Store, Call("main_page_redraw_outdoor_temperature", FloatArg(w.temperature)),
             Call("main_page_redraw_outdoor_weather_icon", IntArg(w.weather_code))>>

outdoor_update(r) ==
    \E p \in {outdoor_fetch(r)} :
       /\ ran' = "outdoor_update"
       /\ fetched' = Got(p.ok, p.info)
       /\ prev' = last_weather
       /\ IF ~p.ok \/ weather_unchanged(last_weather, p.info)
          THEN /\ effects(<<>>)
               /\ UNCHANGED last_weather
          ELSE /\ last_weather' = p.info
               /\ effects(outdoor_effects(p.info))
       /\ UNCHANGED <<rtc, timer, last_info, last_date, last_temperature, last_humidity>>

(***************************************************************************)
(* What the collaborators may return                                       *)
(***************************************************************************)
MaxQueue == 4
MaxSecond == 1
CodeSpan == 30
MaxExcess == 2

Sntp(ok, y) == [ok |-> ok, date |-> IF ok THEN Date(y, 0) ELSE ZeroDate]
Wifi(ok, i) == [ok |-> ok, info |-> i]
Sensor(s, w, rd, t, h) == [start |-> s, wait |-> w, read |-> rd, temperature |-> t, humidity |-> h]
Http(null, text) == [null |-> null, text |-> text]

Home(rssi) == WifiInfo("home", "aa:01", 6, rssi, TRUE)
Cafe == WifiInfo("cafe", "bb:02", 11, -50, TRUE)
Down == WifiInfo("home", "aa:01", 6, 0, FALSE)

GoodShape == [results |-> TRUE, location |-> TRUE, now |-> TRUE, layout |-> "compact",
              name |-> Text(<<"S", "G">>), path |-> Text(<<"S", "G", ",", "S", "G">>),
              text |-> Text(<<"H", "o", "t">>), code |-> Numeral(<<"0">>, 0),
              temperature |-> Numeral(<<"2", "8">>, 280)]

SntpResults == {Sntp(FALSE, 0), Sntp(TRUE, 1999), Sntp(TRUE, 2010), Sntp(TRUE, 2024)}
WifiResults == {Wifi(FALSE, ZeroInfo), Wifi(TRUE, ZeroInfo), Wifi(TRUE, Home(-40)),
                Wifi(TRUE, Home(-70)), Wifi(TRUE, Cafe), Wifi(TRUE, Down)}
SensorResults == {Sensor(FALSE, TRUE, TRUE, 0, 0), Sensor(TRUE, FALSE, TRUE, 0, 0),
                  Sensor(TRUE, TRUE, FALSE, 0, 0), Sensor(TRUE, TRUE, TRUE, 0, 0),
                  Sensor(TRUE, TRUE, TRUE, 250, 400), Sensor(TRUE, TRUE, TRUE, 250, 410)}
HttpResults == {Http(TRUE, <<>>), Http(FALSE, Render(GoodShape)),
                Http(FALSE, Render([GoodShape EXCEPT !.code = Numeral(<<"1", "0">>, 10)])),
                Http(FALSE, Render([GoodShape EXCEPT !.now = FALSE])),
                Http(FALSE, Render([GoodShape EXCEPT !.results = FALSE]))}

\* The outcomes the scheduler is run against: every time source outcome; for the
\* other collaborators a failure and a success that reports the power-on value.
BareShape == [NoShape EXCEPT !.results = TRUE, !.location = TRUE, !.now = TRUE]
SntpOutcomes == {Sntp(FALSE, 0), Sntp(TRUE, 1999), Sntp(TRUE, 2024)}
WifiOutcomes == {Wifi(FALSE, ZeroInfo), Wifi(TRUE, ZeroInfo)}
SensorOutcomes == {Sensor(TRUE, TRUE, FALSE, 0, 0), Sensor(TRUE, TRUE, TRUE, 0, 0)}
HttpOutcomes == {Http(TRUE, <<>>), Http(FALSE, Render(BareShape))}

(***************************************************************************)
(* app.c: timers, callbacks and app_init                                   *)
(***************************************************************************)
\* a step that runs no job body: nothing fetched, nothing displayed
no_job ==
    /\ ran' = "none"
    /\ fetched' = Nothing
    /\ prev' = Void
    /\ calls' = <<>>
    /\ stored' = 0 - 1
    /\ UNCHANGED ssid_shown

statics == <<last_info, last_date, last_temperature, last_humidity, last_weather>>

Timer(period, reload, active, cb) ==
    [period |-> period, reload |-> reload, active |-> active, cb |-> cb]

SchedIdle ==
    /\ pc = "boot"
    /\ timer = [j \in Jobs |-> Timer(0, FALSE, FALSE, "none")]
    /\ queue = <<>>
    /\ worker = "idle"

JobIdle ==
    /\ rtc = PowerOnDate
    /\ last_info = ZeroInfo
    /\ last_date = ZeroDate
    /\ last_temperature = 0
    /\ last_humidity = 0
    /\ last_weather = ZeroWeather
    /\ ran = "none"
    /\ fetched = Nothing
    /\ prev = Void
    /\ calls = <<>>
    /\ stored = 0 - 1
    /\ ssid_shown = NoText

\* every job handed to workqueue_run at startup, time_update among them
immediate_jobs_all ==
    <<"time_sync", "wifi_update", "time_update", "inner_update", "outdoor_update">>

\* the jobs app_init hands to workqueue_run, lines 365-368
immediate_jobs == <<"time_sync", "wifi_update", "inner_update", "outdoor_update">>

\* the time_sync timer created auto-reload like the other four
created_timers_sync_reload ==
    [j \in Jobs |->
        IF j = "time_update" THEN Timer(TIME_UPDATE_INTERVAL, TRUE, TRUE, "app_timer_cb")
        ELSE IF j = "time_sync" THEN Timer(TIME_SYNC_FIRST_DELAY, TRUE, TRUE, "work_timer_cb")
        ELSE IF j = "wifi_update" THEN Timer(WIFI_UPDATE_INTERVAL, TRUE, TRUE, "work_timer_cb")
        ELSE IF j = "inner_update" THEN Timer(INNER_UPDATE_INTERVAL, TRUE, TRUE, "work_timer_cb")
        ELSE Timer(OUTDOOR_UPDATE_INTERVAL, TRUE, TRUE, "work_timer_cb")]

\* xTimerCreate, lines 347-359, and xTimerStart, lines 374-378
created_timers ==
    [j \in Jobs |->
        IF j = "time_update" THEN Timer(TIME_UPDATE_INTERVAL, TRUE, TRUE, "app_timer_cb")
        ELSE IF j = "time_sync" THEN Timer(TIME_SYNC_FIRST_DELAY, FALSE, TRUE, "work_timer_cb")
        ELSE IF j = "wifi_update" THEN Timer(WIFI_UPDATE_INTERVAL, TRUE, TRUE, "work_timer_cb")
        ELSE IF j = "inner_update" THEN Timer(INNER_UPDATE_INTERVAL, TRUE, TRUE, "work_timer_cb")
        ELSE Timer(OUTDOOR_UPDATE_INTERVAL, TRUE, TRUE, "work_timer_cb")]

app_init ==
    /\ pc = "boot"
    /\ pc' = "started"
    /\ timer' = created_timers
    /\ queue' = queue \o immediate_jobs
    /\ no_job
    /\ UNCHANGED <<worker, rtc, statics, parseVars, iconVars>>

\* a timer that stays armed whatever its auto-reload flag
expired_armed(t, j) == [t EXCEPT ![j].active = TRUE]

\* the state of timer j once it has expired
expired(t, j) == [t EXCEPT ![j].active = t[j].reload]

\* expiry of a timer created with work_timer_cb
work_timer_cb(j) ==
    /\ pc = "started"
    /\ timer[j].active
    /\ timer[j].cb = "work_timer_cb"
    /\ Len(queue) < MaxQueue
    /\ queue' = Append(queue, j)
    /\ timer' = expired(timer, j)
    /\ no_job
    /\ UNCHANGED <<pc, worker, rtc, statics, parseVars, iconVars>>

\* job(): the body behind the job pointer, against what its collaborator returns
app_job(j) ==
    \/ j = "time_sync" /\ \E r \in SntpOutcomes : time_sync(r)
    \/ j = "wifi_update" /\ \E r \in WifiOutcomes : wifi_update(r)
    \/ j = "time_update" /\ time_update
    \/ j = "inner_update" /\ \E r \in SensorOutcomes : inner_update(r)
    \/ j = "outdoor_update" /\ \E r \in HttpOutcomes : outdoor_update(r)

\* expiry of a timer created with app_timer_cb: the job runs in the callback.
\* Such a timer is auto-reload, so its expiry leaves it armed.
app_timer_cb(j) ==
    /\ pc = "started"
    /\ timer[j].active
    /\ timer[j].cb = "app_timer_cb"
    /\ timer[j].reload
    /\ app_job(j)
    /\ UNCHANGED <<pc, queue, worker, parseVars, iconVars>>

\* the worker takes the oldest entry of the work queue
workqueue_take ==
    /\ worker = "idle"
    /\ queue # <<>>
    /\ worker' = Head(queue)
    /\ queue' = Tail(queue)
    /\ no_job
    /\ UNCHANGED <<pc, timer, rtc, statics, parseVars, iconVars>>

\* a job whose fetch failed is run again at once, the worker taking nothing else
app_work_retrying ==
    /\ worker # "idle"
    /\ app_job(worker)
    /\ worker' = IF fetched'.ok THEN "idle" ELSE worker
    /\ UNCHANGED <<pc, queue, parseVars, iconVars>>

\* app_work(job) on the worker
app_work ==
    /\ worker # "idle"
    /\ app_job(worker)
    /\ worker' = "idle"
    /\ UNCHANGED <<pc, queue, parseVars, iconVars>>

\* the RTC chip counts a second
rtc_tick ==
    /\ rtc.second < MaxSecond
    /\ rtc' = [rtc EXCEPT !.second = @ + 1]
    /\ no_job
    /\ UNCHANGED <<schedVars, statics, parseVars, iconVars>>

Init == SchedIdle /\ JobIdle /\ ParseIdle /\ IconIdle

Next ==
    \/ app_init
    \/ \E j \in Jobs : work_timer_cb(j)
    \/ \E j \in Jobs : app_timer_cb(j)
    \/ workqueue_take
    \/ app_work

Spec == Init /\ [][Next]_vars

(***************************************************************************)
(* The job bodies alone, run in any order against every collaborator       *)
(* value, from the state in which app_init has run and its four immediate  *)
(* jobs have all failed to fetch.                                          *)
(***************************************************************************)
JobInit ==
    /\ pc = "started"
    /\ timer = [created_timers EXCEPT !["time_sync"].period = SECONDS(1)]
    /\ queue = <<>>
    /\ worker = "idle"
    /\ rtc = PowerOnDate
    /\ last_info = ZeroInfo
    /\ last_date = ZeroDate
    /\ last_temperature = 0
    /\ last_humidity = 0
    /\ last_weather = ZeroWeather
    /\ ran = "outdoor_update"
    /\ fetched = Got(FALSE, ZeroWeather)
    /\ prev = ZeroWeather
    /\ calls = <<>>
    /\ stored = 0 - 1
    /\ ssid_shown = NoText
    /\ ParseIdle
    /\ IconIdle

run_time_sync == \E r \in SntpResults : time_sync(r)
run_wifi_update == \E r \in WifiResults : wifi_update(r)
run_inner_update == \E r \in SensorResults : inner_update(r)
run_outdoor_update == \E r \in HttpResults : outdoor_update(r)

JobNext ==
    \/ (run_time_sync /\ UNCHANGED <<pc, queue, worker, parseVars, iconVars>>)
    \/ (run_wifi_update /\ UNCHANGED <<pc, queue, worker, parseVars, iconVars>>)
    \/ (time_update /\ UNCHANGED <<pc, queue, worker, parseVars, iconVars>>)
    \/ (run_inner_update /\ UNCHANGED <<pc, queue, worker, parseVars, iconVars>>)
    \/ (run_outdoor_update /\ UNCHANGED <<pc, queue, worker, parseVars, iconVars>>)
    \/ rtc_tick

JobSpec == JobInit /\ [][JobNext]_vars

(***************************************************************************)
(* The extractor alone, on every response shape                            *)
(***************************************************************************)
ParseInit ==
    /\ SchedIdle
    /\ JobIdle
    /\ IconIdle
    /\ shape \in Shapes
    /\ response = Render(shape)
    /\ entry \in {ZeroWeather, OldWeather}
    /\ info = entry
    /\ ret = "none"

ParseSpec == ParseInit /\ [][Parse]_vars

(***************************************************************************)
(* The extractor on responses whose quoted values are as long as the       *)
(* field widths of the sscanf formats, and longer                          *)
(***************************************************************************)
\* a text of n times the character c
Run(c, n) == [i \in 1..n |-> c]

\* lengths from one below a width to MaxExcess above it
Around(width) == {width + d : d \in (0 - 1)..MaxExcess}

\* a temperature of n characters: 28.5 followed by zeros
LongTemperature(n) == Numeral(<<"2", "8", ".", "5">> \o Run("0", n - 4), 285)

WideShapes ==
    [results : {TRUE}, location : {TRUE}, now : {TRUE}, layout : {"compact", "spaced"},
     name : {Text(Run("a", n)) : n \in Around(CITY_WIDTH)},
     path : {Text(Run("b", n)) : n \in Around(LOACTION_WIDTH)},
     text : {Text(Run("c", n)) : n \in Around(WEATHER_WIDTH)},
     code : {Numeral(<<"0">>, 0)},
     temperature : {LongTemperature(n) : n \in Around(TEMPERATURE_WIDTH)}]

WidthInit ==
    /\ SchedIdle
    /\ JobIdle
    /\ IconIdle
    /\ shape \in WideShapes
    /\ response = Render(shape)
    /\ entry \in {ZeroWeather, OldWeather}
    /\ info = entry
    /\ ret = "none"

WidthSpec == WidthInit /\ [][Parse]_vars

(***************************************************************************)
(* The icon selection alone, on every code of a span around the ranges     *)
(***************************************************************************)
IconInit ==
    /\ SchedIdle
    /\ JobIdle
    /\ ParseIdle
    /\ code \in (0 - CodeSpan)..CodeSpan
    /\ drawn = "none"

IconSpec == IconInit /\ [][main_page_redraw_outdoor_weather_icon]_vars

(***************************************************************************)
(* The scheduler under fair scheduling: the worker drains its queue and    *)
(* finishes the job it took (every fetch returns), and the timer service   *)
(* delivers the expiry of an armed time_sync timer.                        *)
(***************************************************************************)
FairSpec ==
    /\ Spec
    /\ WF_vars(app_init)
    /\ WF_vars(workqueue_take)
    /\ WF_vars(app_work)
    /\ SF_vars(work_timer_cb("time_sync"))

(***************************************************************************)
(* The same with the timer service delivering the expiry of every armed    *)
(* timer.                                                                  *)
(***************************************************************************)
LiveSpec ==
    /\ Spec
    /\ WF_vars(app_init)
    /\ WF_vars(workqueue_take)
    /\ WF_vars(app_work)
    /\ WF_vars(app_timer_cb("time_update"))
    /\ \A j \in WorkJobs : SF_vars(work_timer_cb(j))

(***************************************************************************)
(* Properties                                                              *)
(***************************************************************************)
SyncTimer == timer["time_sync"]
RetryPeriods == {SECONDS(1), TIME_SYNC_INTERVAL}
Pending(j) == \E i \in 1..Len(queue) : queue[i] = j

\* C1: in the clock, indoor and outdoor jobs, a run whose fetch succeeded and
\* passed validation makes display calls exactly when the fetched value
\* differs from the value its static held when the run began.
C1_forward_iff_changed ==
    (ran \in {"time_update", "inner_update", "outdoor_update"} /\ fetched.ok)
        => ((calls # <<>>) <=> (fetched.val # prev))

\* an indoor reading other than the power-on value delivered a second time: no call
C1_witness ==
    /\ ran = "inner_update"
    /\ fetched.ok
    /\ fetched.val = prev
    /\ fetched.val # Reading(0, 0)
    /\ calls = <<>>

\* C2 as stated: a failed attempt programs the 1 s delay, a successful one the
\* 1 h delay, and the delay armed before any time-sync attempt is one of these two.
C2_only_two_periods ==
    pc = "started" =>
        /\ SyncTimer.period \in RetryPeriods
        /\ ran = "time_sync" =>
               SyncTimer.period = (IF fetched.ok THEN TIME_SYNC_INTERVAL ELSE SECONDS(1))

\* C2 as amended: every time-sync run arms its timer with 1 s after a failure
\* (no time, or a year below 2000) and 1 h after a success, however many
\* failures came before; the only other delay is the 200 ms app_init creates
\* the timer with, and once a run has replaced it, it never comes back.
C2_retry_schedule ==
    [][/\ ran' = "time_sync" =>
              /\ SyncTimer'.active
              /\ SyncTimer'.period = (IF fetched'.ok THEN TIME_SYNC_INTERVAL ELSE SECONDS(1))
       /\ pc' = "started" =>
              \/ SyncTimer'.period \in RetryPeriods
              \/ /\ SyncTimer'.period = TIME_SYNC_FIRST_DELAY
                 /\ pc = "started" => SyncTimer.period = TIME_SYNC_FIRST_DELAY]_vars

\* a time-sync run rejected for its year, after an earlier run had set the RTC
C2_witness ==
    /\ ran = "time_sync"
    /\ ~fetched.ok
    /\ fetched.val.year = 1999
    /\ rtc.year = 2024
    /\ SyncTimer.period = SECONDS(1)

\* C3: a fetched Wi-Fi status whose connected flag equals the stored one makes
\* no display call and leaves last_info as it was, whatever else changed.
C3_same_connectivity_silent ==
    (ran = "wifi_update" /\ fetched.ok /\ fetched.val.connected = prev.connected)
        => (calls = <<>> /\ last_info = prev)

\* still connected, but the signal strength changed
C3_witness ==
    /\ ran = "wifi_update"
    /\ fetched.ok
    /\ prev.connected
    /\ fetched.val.connected
    /\ fetched.val.ssid = prev.ssid
    /\ fetched.val.rssi # prev.rssi
    /\ calls = <<>>

\* C4: a fetched Wi-Fi status whose connected flag differs from the stored one
\* makes exactly one call, main_page_redraw_wifi_ssid: with the fetched
\* network name on connecting, with "wifi lost" on disconnecting.
C4_transition_text ==
    (ran = "wifi_update" /\ fetched.ok /\ fetched.val.connected # prev.connected)
        => /\ Len(calls) = 1
           /\ calls[1].fn = "main_page_redraw_wifi_ssid"
           /\ fetched.val.connected => calls[1].arg.text = fetched.val.ssid
           /\ ~fetched.val.connected =>
                  (calls[1].arg.text = WifiLost /\ calls[1].arg.text # prev.ssid)

\* the network "home" is lost
C4_witness ==
    /\ ran = "wifi_update"
    /\ fetched.ok
    /\ prev.connected
    /\ prev.ssid = "home"
    /\ ~fetched.val.connected
    /\ calls = <<Call("main_page_redraw_wifi_ssid", TextArg(WifiLost))>>

\* C5 as stated: app_init arms all five timers and hands all five jobs to the
\* work queue.
C5_all_five_immediate ==
    [][(pc = "boot" /\ pc' = "started")
          => /\ \A j \in Jobs : timer'[j].active
             /\ \A j \in Jobs : \E i \in 1..Len(queue') : queue'[i] = j]_vars

\* C6: every time-sync run, failed or not, leaves its timer armed, and under
\* fair scheduling a finished time-sync run is followed by the worker taking
\* time_sync again, which is followed by that run finishing.
C6_time_sync_never_dies ==
    /\ [][ran' = "time_sync" => SyncTimer'.active]_vars
    /\ (ran = "time_sync") ~> (worker = "time_sync")
    /\ (worker = "time_sync") ~> (ran = "time_sync")

\* a failed time-sync run with no other time_sync pending: only the timer can bring the next
C6_witness ==
    /\ ran = "time_sync"
    /\ ~fetched.ok
    /\ ~Pending("time_sync")
    /\ SyncTimer.active

StringValued(f) == f.present /\ ~f.numeral
NumberValued(f) == f.present /\ f.numeral
AllAnchors(p) == p.results /\ p.location /\ p.now

\* every string value is non-empty, or the record was zeroed on entry
\* (an empty quoted value assigns nothing)
NoEmptyOverOld(p) ==
    \/ entry = ZeroWeather
    \/ \A f \in {p.name, p.path, p.text} : f.present => f.text # <<>>

\* the response of a shape holds the three anchors and all five keys, each with a usable value
Complete(p) ==
    /\ AllAnchors(p)
    /\ StringValued(p.name) /\ StringValued(p.path) /\ StringValued(p.text)
    /\ NumberValued(p.code) /\ NumberValued(p.temperature)

\* the field a key fills: the quoted value when the key is there, the entry value when not
Filled(f, old) == IF ~f.present THEN old ELSE IF f.numeral THEN f.val ELSE f.text

\* C7: on a response with the three anchors and all five keys, each followed
\* by a quoted value, extraction succeeds and every field is the value quoted
\* after its key (code as integer, temperature as number).
C7_complete_payload ==
    (ret # "none" /\ Complete(shape) /\ NoEmptyOverOld(shape))
        => /\ ret = "true"
           /\ info = [city |-> shape.name.text, loaction |-> shape.path.text,
                      weather |-> shape.text.text, weather_code |-> shape.code.val,
                      temperature |-> shape.temperature.val]

\* the Singapore response, parsed over a record that held other values
C7_witness ==
    /\ ret = "true"
    /\ entry = OldWeather
    /\ Complete(shape)
    /\ info = [city |-> Singapore, loaction |-> SingaporePath, weather |-> Sunny,
               weather_code |-> 0, temperature |-> 280]

\* the keys of a shape that are absent
AbsentKeys(p) ==
    {k \in {"name", "path", "text", "code", "temperature"} : ~p[k].present}

\* every key that is there has a usable value
UsableValues(p) ==
    /\ p.name.present => StringValued(p.name)
    /\ p.path.present => StringValued(p.path)
    /\ p.text.present => StringValued(p.text)
    /\ p.code.present => NumberValued(p.code)
    /\ p.temperature.present => NumberValued(p.temperature)

\* C8: on a response with the three anchors and exactly one key missing,
\* extraction succeeds, the field of the missing key keeps the value the record
\* had on entry (zero for a zeroed record) and every other field is the value
\* quoted after its key.
C8_missing_key ==
    (/\ ret # "none"
     /\ AllAnchors(shape)
     /\ Cardinality(AbsentKeys(shape)) = 1
     /\ UsableValues(shape)
     /\ NoEmptyOverOld(shape))
        => /\ ret = "true"
           /\ info = [city |-> Filled(shape.name, entry.city),
                      loaction |-> Filled(shape.path, entry.loaction),
                      weather |-> Filled(shape.text, entry.weather),
                      weather_code |-> Filled(shape.code, entry.weather_code),
                      temperature |-> Filled(shape.temperature, entry.temperature)]

\* the code key is missing: the code of the record is as on entry, the rest is filled
C8_witness ==
    /\ ret = "true"
    /\ AbsentKeys(shape) = {"code"}
    /\ entry = OldWeather
    /\ info.weather_code = OldWeather.weather_code
    /\ info.city = Singapore
    /\ info.temperature = 280

\* C9: on a response without the "results": anchor extraction fails and the
\* record is as it was on entry, whatever else the response holds.
C9_no_results ==
    (ret # "none" /\ ~shape.results) => (ret = "false" /\ info = entry)

\* no results anchor, but both other anchors and all five keys
C9_witness ==
    /\ ret = "false"
    /\ ~shape.results
    /\ shape.location
    /\ shape.now
    /\ AbsentKeys(shape) = {}
    /\ info = entry

FetchOnWorker == {"wifi_update", "inner_update", "outdoor_update"}

\* C11: a run of the Wi-Fi, indoor or outdoor job whose fetch failed (the query,
\* one of the three sensor steps, the HTTP get or the extraction) makes no
\* display call and changes no static, its own or another job's.
C11_failed_fetch_frame ==
    [][(ran' \in FetchOnWorker /\ ~fetched'.ok)
          => (calls' = <<>> /\ stored' < 0 /\ UNCHANGED statics)]_vars

\* the sensor failed after every static had taken a value of its own
C11_witness ==
    /\ ran = "inner_update"
    /\ ~fetched.ok
    /\ calls = <<>>
    /\ last_temperature # 0
    /\ last_info.connected
    /\ last_date # ZeroDate
    /\ last_weather # ZeroWeather

\* invocations of job j handed to the work queue and not yet finished
Queued(j) == Cardinality({i \in 1..Len(queue) : queue[i] = j})
Outstanding(j) == Queued(j) + (IF worker = j THEN 1 ELSE 0)
Armed(j) == IF timer[j].active THEN 1 ELSE 0

\* C12 as stated: no job ever has more than one invocation queued or executing.
C12_at_most_one == \A j \in Jobs : Outstanding(j) <= 1

\* C12: the one-shot time_sync timer is armed only while fewer than two
\* time_sync invocations are queued or executing, so at most two ever are (the
\* startup one and one from the timer); time_update is never queued and never
\* on the worker.
C12_sync_at_most_two ==
    /\ Outstanding("time_sync") + Armed("time_sync") <= 2
    /\ Outstanding("time_update") = 0

\* the worker is executing time_sync while the timer has queued a second one
C12_witness ==
    /\ worker = "time_sync"
    /\ Queued("time_sync") = 1
    /\ ~SyncTimer.active

\* C13: time_update runs only inside a timer expiry, with the worker and the
\* queue left alone; a timer expiry that queues a job appends it and runs no
\* body; the worker takes the head of the queue, only when idle; and the other
\* four bodies run only on the worker, as the job it took.
C13_dispatch_modes ==
    [][/\ (ran' = "time_update") => (worker' = worker /\ queue' = queue)
       /\ (ran' \in WorkJobs) => (worker = ran' /\ worker' = "idle" /\ queue' = queue)
       /\ (pc = "started" /\ Len(queue') > Len(queue))
             => (/\ \E j \in WorkJobs : queue' = Append(queue, j)
                 /\ ran' = "none"
                 /\ worker' = worker
                 /\ UNCHANGED <<rtc, statics>>)
       /\ (worker' # worker /\ worker' # "idle")
             => (worker = "idle" /\ queue # <<>> /\ worker' = Head(queue) /\ queue' = Tail(queue))
      ]_vars

\* the clock was redrawn inside its timer expiry while the worker was busy and jobs waited
C13_witness ==
    /\ ran = "time_update"
    /\ calls # <<>>
    /\ worker \in WorkJobs
    /\ Len(queue) >= 2

\* what the body of job j reads or writes besides its arguments: the RTC, the
\* display, its timer, its static and the collaborator it fetches from
Touches(j) ==
    IF j = "time_sync" THEN {"sntp", "rtc", "time_sync_timer"}
    ELSE IF j = "wifi_update" THEN {"wifi", "last_info", "display"}
    ELSE IF j = "time_update" THEN {"rtc", "last_date", "display"}
    ELSE IF j = "inner_update" THEN {"aht20", "last_temperature", "last_humidity", "display"}
    ELSE IF j = "outdoor_update" THEN {"http", "last_weather", "display"}
    ELSE {}

\* C14: a job body run inside a timer expiry while the worker is executing a
\* job touches nothing that the worker's job touches.
C14_only_queue_shared ==
    (ran = "time_update" /\ worker # "idle") => Touches("time_update") \cap Touches(worker) = {}

SyncExpiry == pc = "started" /\ queue' = Append(queue, "time_sync")

Filtered == {"wifi_update", "time_update", "inner_update", "outdoor_update"}

\* a static changes only in a step that runs the body owning it and records a write
OwnWrites ==
    /\ (last_info' # last_info) => ran' = "wifi_update"
    /\ (last_date' # last_date) => ran' = "time_update"
    /\ (last_temperature' # last_temperature \/ last_humidity' # last_humidity)
          => ran' = "inner_update"
    /\ (last_weather' # last_weather) => ran' = "outdoor_update"
    /\ (statics' # statics) => stored' >= 0

\* a run writes its static only on a fetched value that differs from it, and
\* exactly when it makes display calls
WriteWithForward ==
    ran \in Filtered =>
        /\ (stored >= 0) <=> (calls # <<>>)
        /\ (stored >= 0) => (fetched.ok /\ fetched.val # prev)

\* C16 as stated: in all four change-filtered jobs the write of the static
\* comes before every display call of the run.
C16_store_before_forward ==
    /\ WriteWithForward
    /\ (ran \in Filtered /\ stored >= 0) => stored = 0

\* C16: a static is written only by the body owning it, only on a fetched
\* value that differs from it and only in a run that makes display calls; the
\* clock, indoor and outdoor bodies write it before their display calls, the
\* Wi-Fi body after its one display call.
C16_store_next_to_forward ==
    /\ [][OwnWrites]_vars
    /\ [](/\ WriteWithForward
          /\ (ran \in Filtered \ {"wifi_update"} /\ stored >= 0) => stored = 0
          /\ (ran = "wifi_update" /\ stored >= 0) => (stored = 1 /\ Len(calls) = 1))

\* a Wi-Fi run that showed the new network name and then saved the new info
C16_witness ==
    /\ ran = "wifi_update"
    /\ stored = 1
    /\ calls = <<Call("main_page_redraw_wifi_ssid", TextArg("cafe"))>>
    /\ last_info = Cafe

ClockCalls == {"main_page_redraw_time", "main_page_redraw_date"}

\* C17: a time_sync run that got a year below 2000, like one whose fetch
\* failed, leaves the RTC as it was and arms the 1 s retry; a time_update run
\* that read a year below 2020 leaves last_date as it was and makes no display
\* call.  No time_sync run writes a year below 2000 to the RTC and no year
\* below 2020 is handed to the time or date redraw.
C17_validation_as_failure ==
    /\ (ran = "time_sync" /\ fetched.val.year < 2000)
          => (rtc = prev /\ SyncTimer.active /\ SyncTimer.period = SECONDS(1))
    /\ (ran = "time_sync" /\ rtc # prev) => (rtc = fetched.val /\ rtc.year >= 2000)
    /\ (ran = "time_update" /\ fetched.val.year < 2020)
          => (calls = <<>> /\ stored < 0 /\ last_date = prev)
    /\ \A i \in 1..Len(calls) : calls[i].fn \in ClockCalls => calls[i].arg.year >= 2020

\* the RTC was set back to 2010 after 2024 had been shown: the clock run shows nothing
C17_witness ==
    /\ ran = "time_update"
    /\ rtc.year = 2010
    /\ last_date.year = 2024
    /\ calls = <<>>

AllKeys == {"name", "path", "text", "code", "temperature"}

\* C18: extraction returns false exactly when the response lacks the results,
\* the location or the now anchor; whichever of the five keys are missing or
\* followed by a value that does not scan, with the three anchors there it
\* returns true.
C18_fails_iff_anchor_missing ==
    ret # "none" => ((ret = "false") <=> ~AllAnchors(shape))

\* three anchors, four keys missing and a code that is no number: success, nothing written
C18_witness ==
    /\ ret = "true"
    /\ entry = OldWeather
    /\ AbsentKeys(shape) = AllKeys \ {"code"}
    /\ shape.code = Text(<<"x">>)
    /\ info = entry

\* the string a key writes: the quoted value when the key is there with a
\* non-empty value, the entry value when not
Scanned(f, old) == IF f.present /\ f.text # <<>> THEN f.text ELSE old

\* C19 as stated: whenever extraction returns false the record is as it was on entry.
C19_failure_leaves_record == (ret = "false") => info = entry

\* C19: when extraction returns false, weather, weather_code and temperature
\* are as they were on entry; the whole record is when the results or the
\* location anchor is missing; when only the now anchor is missing, city and
\* loaction hold the values quoted after the name and path keys that are there.
C19_failure_keeps_now_fields ==
    (ret = "false") =>
        /\ info.weather = entry.weather
        /\ info.weather_code = entry.weather_code
        /\ info.temperature = entry.temperature
        /\ (~shape.results \/ ~shape.location) => info = entry
        /\ (shape.results /\ shape.location)
              => /\ info.city = Scanned(shape.name, entry.city)
                 /\ info.loaction = Scanned(shape.path, entry.loaction)

\* no now anchor: false is returned with city and loaction already written over the old ones
C19_witness ==
    /\ ret = "false"
    /\ entry = OldWeather
    /\ shape.results /\ shape.location /\ ~shape.now
    /\ info.city = Singapore
    /\ info.loaction = SingaporePath
    /\ info.weather = entry.weather

BadNumeral(f) == f.present /\ ~f.numeral /\ f.text # <<>>

\* a field differs from its entry value only if its key was found under the
\* anchors searched before it and its value scanned
OnlyScannedWritten ==
    /\ (info.city # entry.city)
          => (shape.results /\ shape.location /\ info.city = Scanned(shape.name, entry.city))
    /\ (info.loaction # entry.loaction)
          => (shape.results /\ shape.location /\ info.loaction = Scanned(shape.path, entry.loaction))
    /\ (info.weather # entry.weather)
          => (AllAnchors(shape) /\ info.weather = Scanned(shape.text, entry.weather))
    /\ (info.weather_code # entry.weather_code)
          => (AllAnchors(shape) /\ NumberValued(shape.code) /\ info.weather_code = shape.code.val)
    /\ (info.temperature # entry.temperature)
          => (AllAnchors(shape) /\ shape.temperature.present /\ shape.temperature.text # <<>>)

\* C20 as stated: fields are written only by a found key with a scanned value,
\* and a temperature whose quoted text is no numeral keeps its entry value.
C20_bad_numeral_retained ==
    ret # "none" =>
        /\ OnlyScannedWritten
        /\ BadNumeral(shape.temperature) => info.temperature = entry.temperature

\* C20: fields are written only by a found key with a scanned value; with the
\* three anchors there, a temperature key with a non-empty quoted text sets
\* temperature to the number the text denotes, and to 0 when it is no numeral,
\* and extraction returns true.
C20_bad_numeral_zeroed ==
    ret # "none" =>
        /\ OnlyScannedWritten
        /\ (AllAnchors(shape) /\ NumberValued(shape.temperature))
              => info.temperature = shape.temperature.val
        /\ (AllAnchors(shape) /\ BadNumeral(shape.temperature))
              => (info.temperature = 0 /\ ret = "true")

\* temperature "abc" over a record that held -5.0: the field is now 0
C20_witness ==
    /\ ret = "true"
    /\ entry = OldWeather
    /\ shape.temperature = Text(<<"a", "b", "c">>)
    /\ info.temperature = 0

\* the first n characters of t, all of t when it is shorter
Prefix(t, n) == SubSeq(t, 1, IF Len(t) < n THEN Len(t) ELSE n)

CopiedTemperature ==
    temperature_str(response, now_anchor(response, results_anchor(response)))

\* C21: whatever the length of the quoted values, city takes the first 31
\* characters of the name, loaction the first 128 of the path, weather the
\* first 15 of the text and temperature_str the first 15 of the temperature,
\* and never more.
C21_bounded_copies ==
    ret # "none" =>
        /\ Len(info.city) <= 31 /\ info.city = Prefix(shape.name.text, 31)
        /\ Len(info.loaction) <= 128 /\ info.loaction = Prefix(shape.path.text, 128)
        /\ Len(info.weather) <= 15 /\ info.weather = Prefix(shape.text.text, 15)
        /\ Len(CopiedTemperature) <= 15
        /\ CopiedTemperature = Prefix(shape.temperature.text, 15)

\* every quoted value was longer than its width and was cut to it
C21_witness ==
    /\ ret = "true"
    /\ entry = OldWeather
    /\ Len(shape.name.text) > 31 /\ Len(info.city) = 31
    /\ Len(shape.path.text) > 128 /\ Len(info.loaction) = 128
    /\ Len(shape.text.text) > 15 /\ Len(info.weather) = 15
    /\ Len(shape.temperature.text) > 15 /\ Len(CopiedTemperature) = 15
    /\ info.temperature = 285

\* a run whose fetch failed leaves the timers and the statics of the other jobs as they were
FailureFrame ==
    (ran' \in Jobs /\ ~fetched'.ok) =>
        /\ \A k \in Jobs \ {ran'} : timer'[k] = timer[k]
        /\ (ran' # "wifi_update") => last_info' = last_info
        /\ (ran' # "time_update") => last_date' = last_date
        /\ (ran' # "inner_update")
              => (last_temperature' = last_temperature /\ last_humidity' = last_humidity)
        /\ (ran' # "outdoor_update") => last_weather' = last_weather

\* C22: with every fetch returning, the worker draining its queue and every
\* armed timer's expiry delivered, each of the five job bodies runs again and
\* again whatever fails, and a run whose fetch failed changes no other job's
\* timer or static.
C22_no_job_starved ==
    /\ \A j \in Jobs : []<>(ran = j)
    /\ [][FailureFrame]_vars

\* a Wi-Fi run failed after the clock had been shown and the hourly sync period set
C22_witness ==
    /\ ran = "wifi_update"
    /\ ~fetched.ok
    /\ last_date.year = 2024
    /\ SyncTimer.period = TIME_SYNC_INTERVAL
    /\ \A j \in Jobs : timer[j].active

\* C23: the icon drawn for a code is the one the comment above the function
\* lists for it: sunny for 0-3, cloudy for 4-8, rainy for 9-13, snowy for 14-17.
C23_icon_as_documented ==
    drawn # "none" =>
        /\ (code \in 0..3) => drawn = "img_weather_sunny"
        /\ (code \in 4..8) => drawn = "img_weather_cloudy"
        /\ (code \in 9..13) => drawn = "img_weather_rainy"
        /\ (code \in 14..17) => drawn = "img_weather_snowy"

\* what the Wi-Fi line of the page was last given: a network name, or the text "wifi lost"
ShowsName == ssid_shown # NoText /\ ssid_shown # TextArg(WifiLost)
ShowsLost == ssid_shown = TextArg(WifiLost)
WifiForward == ran' = "wifi_update" /\ calls' # <<>>

\* C24: from the zeroed last_info, each text handed to the Wi-Fi line is a
\* network name when the one before was "wifi lost" or there was none, and
\* "wifi lost" when the one before was a network name; the text changes only by
\* such a call; and last_info.connected is true exactly when the last text
\* handed over was a network name, which is then last_info.ssid.
C24_ssid_alternates ==
    /\ [][/\ WifiForward => ((ShowsName' <=> ~ShowsName) /\ (ShowsLost' <=> ShowsName))
          /\ (ssid_shown' # ssid_shown) => WifiForward]_vars
    /\ [](/\ last_info.connected <=> ShowsName
          /\ last_info.connected => ssid_shown = TextArg(last_info.ssid))

\* home, then lost, then cafe: the third text is a name again
C24_witness ==
    /\ ran = "wifi_update"
    /\ prev = Down
    /\ last_info = Cafe
    /\ ssid_shown = TextArg("cafe")
    /\ calls = <<Call("main_page_redraw_wifi_ssid", TextArg("cafe"))>>

====
